---- MODULE Spec2Model ----
(***************************************************************************)
(* Model of the activity tracker "tracks": the statistics route            *)
(* (src/app/api/statistics/route.ts) over the stored activities, sessions  *)
(* and external Dreaming Spanish entries, the sessions route that starts,  *)
(* stops and deletes sessions, and the checkboxes route.                   *)
(*                                                                         *)
(* Representation                                                          *)
(*  - An instant (a JS Date) is an integer number of ticks; DayMs ticks    *)
(*    make 24 hours.  The local time zone has a fixed offset, so every     *)
(*    local calendar day is DayMs ticks long and starts at a multiple of   *)
(*    DayMs.                                                               *)
(*  - A 'yyyy-MM-dd' string is the number of its calendar day (day 0 is    *)
(*    2024-01-01, a Monday); format maps an instant to that number and     *)
(*    parseLocalMidnight maps the number back to the instant of the local  *)
(*    midnight, as new Date(date + 'T00:00:00') does.                      *)
(*  - An optional field (duration?, targetMinutes?, toDate?) is a sequence *)
(*    of length 0 (undefined) or 1.                                        *)
(*  - Minutes are kept exactly as a number of seconds (minutes * 60); the  *)
(*    code's "/ 60" happens inside roundMinutes, percentage and the goal   *)
(*    comparison.  On the durations used here the IEEE double results of   *)
(*    the code equal these exact results.                                  *)
(***************************************************************************)
EXTENDS Integers, Sequences, FiniteSets, TLC

VARIABLES activities, sessions, dreamingSpanishData, clock,
          activityId, now, response,
          checkboxes, pending, backend,
          goals, migrationsDir, migrations, schema, runner

vars == <<activities, sessions, dreamingSpanishData, clock, activityId, now, response,
          checkboxes, pending, backend,
          goals, migrationsDir, migrations, schema, runner>>

store == <<activities, sessions, dreamingSpanishData, clock>>

\* the checkbox records, the checkbox requests in flight, and the Database
\* implementation behind '@/lib/db'
checkboxStore == <<checkboxes, pending, backend>>

\* the legacy goal records of the goals table
goalStore == <<goals>>

\* the migrations directory, the migrations table, the committed schema
\* changes, and the position of the migration runner
migrationStore == <<migrationsDir, migrations, schema, runner>>

-----------------------------------------------------------------------------
(* Program constants *)

DayMs == 2

StreakScanDays == 365

ProgressDays == 30

spanishActivityId == "3f4f9a6f-fe2f-4b37-9dc6-74739c0c8a74"

-----------------------------------------------------------------------------
(* Optional values and JavaScript truthiness *)

undefined == <<>>

Some(x) == <<x>>

\* !x for an optional number: undefined and 0 are falsy
Truthy(x) == x # undefined /\ x[1] # 0

\* (x || 0) for an optional number
OrZero(x) == IF Truthy(x) THEN x[1] ELSE 0

\* url.searchParams.get('activityId') when the parameter is missing
NoFilter == "null"

-----------------------------------------------------------------------------
(* date-fns on the integer time line *)

format(t) == t \div DayMs

\* the time value of an Invalid Date; it compares false with every instant
NaN == -1000000

\* a date string that is no calendar date
MalformedDate == -1000000

\* new Date(date + 'T00:00:00')
parseLocalMidnight(date) == IF date = MalformedDate THEN NaN ELSE date * DayMs

startOfDay(t) == (t \div DayMs) * DayMs

subDays(t, n) == t - n * DayMs

\* weeks start on Sunday (the date-fns default); day 0 is a Monday
startOfWeek(t) == (format(t) - ((format(t) + 1) % 7)) * DayMs

\* first days of the months December 2023 .. January 2025
MonthStarts == {-31, 0, 31, 60, 91, 121, 152, 182, 213, 244, 274, 305, 335, 366}

startOfMonth(t) ==
    (CHOOSE m \in MonthStarts :
        /\ m <= format(t)
        /\ \A m2 \in MonthStarts : m2 <= format(t) => m2 <= m) * DayMs

isAfter(t, d) == t # NaN /\ t > d

isWithinInterval(t, start, end) == t # NaN /\ t >= start /\ t <= end

\* Math.round(secs / 60): round half up
roundMinutes(secs) == (secs + 30) \div 60

-----------------------------------------------------------------------------
(* GET /api/statistics.  An input "in" is the record of what the handler   *)
(* reads: [activities, sessions, dreamingSpanishData, activityId, now].    *)

RECURSIVE sumDuration(_)
\* reduce((total, session) => total + (session.duration || 0), 0)
sumDuration(ss) ==
    IF ss = <<>> THEN 0 ELSE OrZero(Head(ss).duration) + sumDuration(Tail(ss))

RECURSIVE reduceTimeSeconds(_, _, _)
\* what the steps lo <= k < hi of the reduce below add to the total; the sum
\* of integers does not depend on the order, and it is taken by halves so
\* that a year of entries nests only log2(hi - lo) deep
reduceTimeSeconds(es, lo, hi) ==
    IF ~(lo < hi) THEN 0
    ELSE IF hi = lo + 1 THEN es[lo].timeSeconds
    ELSE LET mid == (lo + hi) \div 2
         IN  reduceTimeSeconds(es, lo, mid) + reduceTimeSeconds(es, mid, hi)

\* reduce((total, entry) => total + entry.timeSeconds, 0)
sumTimeSeconds(es) == 0 + reduceTimeSeconds(es, 1, Len(es) + 1)

today(in) == startOfDay(in.now)

\* if (activityId) ...: null and the empty string select every session
hasFilter(id) == id # NoFilter /\ id # ""

\* mutant: the activityId parameter does not restrict the sessions
filteredSessionsAll(in) == in.sessions

filteredSessions(in) ==
    IF hasFilter(in.activityId)
    THEN SelectSeq(in.sessions, LAMBDA s : s.activityId = in.activityId)
    ELSE in.sessions

\* !activityId || activityId === spanishActivityId
externalApplies(id) == ~hasFilter(id) \/ id = spanishActivityId

\* the membership test of getTotalMinutes for one instant
inRange(t, fromDate, toDate) ==
    IF toDate # undefined
    THEN isWithinInterval(t, fromDate, toDate[1])
    ELSE isAfter(t, fromDate) \/ t = fromDate

\* getTotalMinutes, in seconds (the code's value times 60)
getTotalMinutes(in, fromDate, toDate) ==
    LET sessionMinutes ==
            sumDuration(SelectSeq(filteredSessions(in),
                LAMBDA s : Truthy(s.duration) /\ inRange(s.startTime, fromDate, toDate)))
        externalMinutes ==
            IF externalApplies(in.activityId)
            THEN sumTimeSeconds(SelectSeq(in.dreamingSpanishData,
                    LAMBDA e : inRange(parseLocalMidnight(e.date), fromDate, toDate)))
            ELSE 0
    IN  sessionMinutes + externalMinutes

\* mutant: the today window has no end, as the week and the month
totalTimeTodayOpen(in) == getTotalMinutes(in, today(in), undefined)

totalTimeToday(in) == getTotalMinutes(in, today(in), Some(today(in) + DayMs))

\* mutant: the week window ends now
totalTimeWeekUntilNow(in) == getTotalMinutes(in, startOfWeek(today(in)), Some(in.now))

totalTimeWeek(in) == getTotalMinutes(in, startOfWeek(today(in)), undefined)

totalTimeMonth(in) == getTotalMinutes(in, startOfMonth(today(in)), undefined)

\* mutant: a session counts for its day although it has no duration
hasSessionActivityRunning(in, dayStart, dayEnd) ==
    \E k \in 1..Len(filteredSessions(in)) :
        isWithinInterval(filteredSessions(in)[k].startTime, dayStart, dayEnd)

\* filteredSessions.some(...) for the day that starts at dayStart
hasSessionActivity(in, dayStart, dayEnd) ==
    \E k \in 1..Len(filteredSessions(in)) :
        LET session == filteredSessions(in)[k]
        IN  /\ Truthy(session.duration)
            /\ isWithinInterval(session.startTime, dayStart, dayEnd)

hasExternalActivity(in, dateStr) ==
    /\ externalApplies(in.activityId)
    /\ \E k \in 1..Len(in.dreamingSpanishData) : in.dreamingSpanishData[k].date = dateStr

\* the test of one iteration of the streak loop
hasActivity(in, i) ==
    LET checkDate == subDays(today(in), i)
        dayStart  == startOfDay(checkDate)
        dayEnd    == dayStart + DayMs
        dateStr   == format(checkDate)
    IN  hasSessionActivity(in, dayStart, dayEnd) \/ hasExternalActivity(in, dateStr)

\* mutant: the scan also breaks on an empty today
streakBreaksToday(i) == i >= 0

\* mutant: the scan also tolerates an empty yesterday
streakBreaksLate(i) == i > 1

\* else if (i > 0) break
streakBreaks(i) == i > 0

\* the body of the loop for one i; broken records the break
streakStep(in, i, st) ==
    IF hasActivity(in, i) THEN [st EXCEPT !.streakDays = @ + 1]
    ELSE IF streakBreaks(i) THEN [st EXCEPT !.broken = TRUE]
    ELSE st

RECURSIVE streakLoop(_, _, _, _)
\* the iterations lo <= i < hi of the loop, in order, from the loop state st;
\* the range is halved so that the evaluation nests log2(hi - lo) deep, and
\* nothing is evaluated after the break
streakLoop(in, lo, hi, st) ==
    IF st.broken \/ ~(lo < hi) THEN st
    ELSE IF hi = lo + 1 THEN streakStep(in, lo, st)
    ELSE LET mid == (lo + hi) \div 2
         IN  streakLoop(in, mid, hi, streakLoop(in, lo, mid, st))

\* mutant: the scan covers one more day
streakDaysLonger(in) ==
    streakLoop(in, 0, StreakScanDays + 1, [streakDays |-> 0, broken |-> FALSE]).streakDays

streakDays(in) ==
    streakLoop(in, 0, StreakScanDays, [streakDays |-> 0, broken |-> FALSE]).streakDays

\* the filter that builds todayGoals
isTodayGoal(in, activity) ==
    /\ ~(~activity.goalIsActive \/ ~Truthy(activity.targetMinutes) \/ activity.goalType # "daily")
    /\ ~(hasFilter(in.activityId) /\ activity.id # in.activityId)

\* the minutes (in seconds) the goal of an activity is compared with
goalMinutes(in, activity) ==
    LET goalSessions == SelectSeq(in.sessions, LAMBDA s :
            /\ s.activityId = activity.id
            /\ s.date = format(today(in))
            /\ Truthy(s.duration))
        externalMinutesToday ==
            sumTimeSeconds(SelectSeq(in.dreamingSpanishData,
                LAMBDA e : e.date = format(today(in))))
    IN  sumDuration(goalSessions)
          + (IF activity.id = spanishActivityId THEN externalMinutesToday ELSE 0)

\* mutant: the target has to be exceeded
goalReachedStrict(secs, targetMinutes) == secs > 60 * targetMinutes

\* totalMinutes >= activity.targetMinutes
goalReached(secs, targetMinutes) == secs >= 60 * targetMinutes

completedGoalsToday(in) ==
    Cardinality({a \in in.activities :
        isTodayGoal(in, a) /\ goalReached(goalMinutes(in, a), a.targetMinutes[1])})

\* mutant: the two sources are rounded separately
progressEntryPerSource(in, i) ==
    LET dateStr == format(subDays(today(in), i))
        dayMinutes ==
            sumDuration(SelectSeq(filteredSessions(in),
                LAMBDA s : s.date = dateStr /\ Truthy(s.duration)))
        externalMinutes ==
            IF externalApplies(in.activityId)
            THEN sumTimeSeconds(SelectSeq(in.dreamingSpanishData,
                    LAMBDA e : e.date = dateStr))
            ELSE 0
    IN  [date |-> dateStr,
         totalMinutes |-> roundMinutes(dayMinutes) + roundMinutes(externalMinutes)]

\* one entry of dailyProgress: the day i days before today
progressEntry(in, i) ==
    LET dateStr == format(subDays(today(in), i))
        dayMinutes ==
            sumDuration(SelectSeq(filteredSessions(in),
                LAMBDA s : s.date = dateStr /\ Truthy(s.duration)))
        externalMinutes ==
            IF externalApplies(in.activityId)
            THEN sumTimeSeconds(SelectSeq(in.dreamingSpanishData,
                    LAMBDA e : e.date = dateStr))
            ELSE 0
    IN  [date |-> dateStr, totalMinutes |-> roundMinutes(dayMinutes + externalMinutes)]

\* mutant: the series has an entry only for the days with minutes
dailyProgressSparse(in) ==
    SelectSeq([k \in 1..ProgressDays |-> progressEntry(in, ProgressDays - k)],
              LAMBDA e : e.totalMinutes > 0)

\* mutant: the series ends yesterday
dailyProgressShifted(in) ==
    [k \in 1..ProgressDays |-> progressEntry(in, ProgressDays - k + 1)]

\* for (let i = 29; i >= 0; i--) dailyProgress.push(...)
dailyProgress(in) ==
    [k \in 1..ProgressDays |-> progressEntry(in, ProgressDays - k)]

\* mutant: an id without a record is shown as an activity of that name
findActivityOrUnknown(in, id) ==
    IF \E a \in in.activities : a.id = id
    THEN {a \in in.activities : a.id = id}
    ELSE {[id |-> id, name |-> id]}

findActivity(in, id) == {a \in in.activities : a.id = id}

\* activityStats.get(id) || { name, minutes: 0 }; current.minutes += secs; set(id, current)
addMinutes(stats, id, name, secs) ==
    IF \E k \in 1..Len(stats) : stats[k].activityId = id
    THEN [k \in 1..Len(stats) |->
            IF stats[k].activityId = id
            THEN [stats[k] EXCEPT !.minutes = @ + secs]
            ELSE stats[k]]
    ELSE Append(stats, [activityId |-> id, name |-> name, minutes |-> secs])

RECURSIVE processSessions(_, _, _)
\* the forEach over the sessions that have a duration
processSessions(in, ss, stats) ==
    IF ss = <<>> THEN stats
    ELSE LET session == Head(ss)
             found   == findActivity(in, session.activityId)
         IN  IF Truthy(session.duration) /\ found # {}
             THEN processSessions(in, Tail(ss),
                    addMinutes(stats, session.activityId,
                               (CHOOSE a \in found : TRUE).name, session.duration[1]))
             ELSE processSessions(in, Tail(ss), stats)

\* mutant: the external total is not merged into the designated activity
activityStatsSessionsOnly(in) == processSessions(in, filteredSessions(in), <<>>)

\* the Map activityStats in insertion order, minutes in seconds
activityStats(in) ==
    LET regular == processSessions(in, filteredSessions(in), <<>>)
        spanishActivity == findActivity(in, spanishActivityId)
    IN  IF externalApplies(in.activityId) /\ spanishActivity # {}
        THEN addMinutes(regular, spanishActivityId,
                        (CHOOSE a \in spanishActivity : TRUE).name,
                        sumTimeSeconds(in.dreamingSpanishData))
        ELSE regular

RECURSIVE sumMinutes(_)
sumMinutes(stats) ==
    IF stats = <<>> THEN 0 ELSE Head(stats).minutes + sumMinutes(Tail(stats))

\* mutant: the share is not scaled to percent
percentageFraction(minutes, totalMinutes) ==
    IF totalMinutes > 0
    THEN (2 * minutes + totalMinutes) \div (2 * totalMinutes)
    ELSE 0

\* totalMinutes > 0 ? Math.round((stat.minutes / totalMinutes) * 100) : 0
percentage(minutes, totalMinutes) ==
    IF totalMinutes > 0
    THEN (200 * minutes + totalMinutes) \div (2 * totalMinutes)
    ELSE 0

activityBreakdown(in) ==
    LET stats == activityStats(in)
        totalMinutes == sumMinutes(stats)
    IN  [k \in 1..Len(stats) |->
            [activityId   |-> stats[k].activityId,
             activityName |-> stats[k].name,
             totalMinutes |-> roundMinutes(stats[k].minutes),
             percentage   |-> percentage(stats[k].minutes, totalMinutes)]]

computeStatistics(in) ==
    [totalTimeToday      |-> roundMinutes(totalTimeToday(in)),
     totalTimeWeek       |-> roundMinutes(totalTimeWeek(in)),
     totalTimeMonth      |-> roundMinutes(totalTimeMonth(in)),
     streakDays          |-> streakDays(in),
     completedGoalsToday |-> completedGoalsToday(in),
     dailyProgress       |-> dailyProgress(in),
     activityBreakdown   |-> activityBreakdown(in)]

\* what a GET with parameter id reads from the store at the instant t
\* mutant: a checked checkbox is read as a session of one minute
InputWithCheckboxes(id, t) ==
    [activities |-> activities,
     sessions |-> sessions \o
        [k \in 1..Len(checkboxes) |->
            [id |-> checkboxes[k].id, activityId |-> checkboxes[k].activityId,
             startTime |-> checkboxes[k].date * DayMs, date |-> checkboxes[k].date,
             duration |-> IF checkboxes[k].isChecked THEN <<60>> ELSE <<0>>,
             isRunning |-> FALSE]],
     dreamingSpanishData |-> dreamingSpanishData, activityId |-> id, now |-> t]

Input(id, t) ==
    [activities |-> activities, sessions |-> sessions,
     dreamingSpanishData |-> dreamingSpanishData, activityId |-> id, now |-> t]

-----------------------------------------------------------------------------
(* The stores a request can find.  The statistics route only reads them;   *)
(* they are written by the other routes, by the data migration and, for    *)
(* the Dreaming Spanish entries, by an external file.                      *)

\* calendar day of the clock
Today == 61

\* records are dated from DaysBack days before Today to the day after it
DaysBack == 3

Days == (Today - DaysBack)..(Today + 1)

midnight(d) == d * DayMs

midday(d) == d * DayMs + 1

\* every midday, and the two midnights that bound today
StartTimes == {midday(d) : d \in Days} \cup {midnight(Today), midnight(Today + 1)}

ActivityIds == {spanishActivityId, "a1"}

NoGoal   == [goalIsActive |-> FALSE, targetMinutes |-> undefined, goalType |-> "undefined"]
Daily30  == [goalIsActive |-> TRUE,  targetMinutes |-> Some(30),  goalType |-> "daily"]
Paused30 == [goalIsActive |-> FALSE, targetMinutes |-> Some(30),  goalType |-> "daily"]
Weekly30 == [goalIsActive |-> TRUE,  targetMinutes |-> Some(30),  goalType |-> "weekly"]
NoTarget == [goalIsActive |-> TRUE,  targetMinutes |-> undefined, goalType |-> "daily"]
\* parseInt("0.5"): the activities route can store a target of 0
Zero     == [goalIsActive |-> TRUE,  targetMinutes |-> Some(0),   goalType |-> "daily"]

Activity(id, goal) ==
    [id |-> id, name |-> id, goalIsActive |-> goal.goalIsActive,
     targetMinutes |-> goal.targetMinutes, goalType |-> goal.goalType]

\* the sets of activities with at most one record per id, goals drawn from the given sets
ActivitySets(spanishGoals, otherGoals, optional) ==
    {sp \cup ot :
        sp \in {{Activity(spanishActivityId, g)} : g \in spanishGoals}
                  \cup (IF optional THEN {{}} ELSE {}),
        ot \in {{Activity("a1", g)} : g \in otherGoals}
                  \cup (IF optional THEN {{}} ELSE {})}

\* a stored session; date is the day of startTime moved by skew days
Session(id, act, startTime, skew, duration) ==
    [id |-> id, activityId |-> act, startTime |-> startTime,
     date |-> format(startTime) + skew, duration |-> duration,
     isRunning |-> (duration = undefined)]

\* the session lists with at most one session per id, s1 before s2
SessionLists(acts1, times, skews, durations) ==
    LET first  == {<<Session("s1", a, t, k, d)>> :
                      a \in acts1, t \in times, k \in skews, d \in durations} \cup {<<>>}
        second == {<<Session("s2", "a1", t, k, d)>> :
                      t \in times, k \in skews, d \in durations} \cup {<<>>}
    IN  {x \o y : x \in first, y \in second}

\* the lists of at most one external entry
EntryLists(dates, seconds) ==
    {<<[date |-> d, timeSeconds |-> n]>> : d \in dates, n \in seconds} \cup {<<>>}

\* sessions and entries anywhere around today: windows and streak (an entry
\* of 3000 s and a session of 1800 s share the time 62.5 : 37.5)
WindowStores ==
    [activities : ActivitySets({NoGoal}, {Daily30}, FALSE),
     sessions : SessionLists(ActivityIds, StartTimes, {0}, {undefined, Some(0), Some(1800)}),
     dreamingSpanishData : EntryLists(Days, {3000}),
     clock : {midnight(Today), midday(Today)}]

\* sessions of today and yesterday with every duration, date and goal: sums and rounding
GoalStores ==
    [activities : ActivitySets({Daily30}, {NoGoal, Daily30, Paused30, Weekly30, NoTarget, Zero}, TRUE),
     sessions : SessionLists(ActivityIds, {midday(Today), midday(Today - 1)}, {0, 1},
                             {Some(30), Some(300), Some(1800)}),
     dreamingSpanishData : EntryLists({Today}, {30, 600}),
     clock : {midday(Today)}]

Stores == WindowStores \cup GoalStores

Filters == {NoFilter} \cup ActivityIds

NoResponse == [success |-> FALSE]

\* the clients that can have a checkbox request in flight
Requests == {"r1", "r2"}

Idle == [op |-> "idle"]

\* no checkbox record and no checkbox request
NoCheckboxes ==
    /\ checkboxes = <<>>
    /\ pending = [r \in Requests |-> Idle]
    /\ backend = "file"

\* no legacy goal record
NoGoals == goals = {}

\* the processes that can call runMigrations
Procs == {"p1", "p2"}

\* the runner of a process that has not started runMigrations
NotStarted == [pc |-> "idle", migrationFiles |-> <<>>, executedMigrations |-> {}, i |-> 1]

\* an empty migrations directory and a database without migrations table
NoMigrations ==
    /\ migrationsDir = {}
    /\ migrations = {}
    /\ schema = <<>>
    /\ runner = [p \in Procs |-> NotStarted]

Init ==
    /\ \E st \in Stores :
          /\ activities = st.activities
          /\ sessions = st.sessions
          /\ dreamingSpanishData = st.dreamingSpanishData
          /\ clock = st.clock
    /\ activityId = NoFilter
    /\ now = 0
    /\ response = NoResponse
    /\ NoCheckboxes
    /\ NoGoals
    /\ NoMigrations

\* GET /api/statistics?activityId=id
GET(id) ==
    /\ activityId' = id
    /\ now' = clock
    /\ response' = [success |-> TRUE, data |-> computeStatistics(Input(id, clock))]
    /\ UNCHANGED <<store, checkboxStore, goalStore, migrationStore>>

Next == \E id \in Filters : GET(id)

Spec == Init /\ [][Next]_vars

\* the input of the request that produced the response
in == Input(activityId, now)

answered == response.success

-----------------------------------------------------------------------------
(* Properties of the streak *)

RECURSIVE RunLength(_, _)
\* the number of consecutive days with activity, counted backward from day i
RunLength(inp, i) ==
    IF i < StreakScanDays /\ hasActivity(inp, i) THEN 1 + RunLength(inp, i + 1) ELSE 0

\* C1: when today (i = 0) has no qualifying activity, streakDays is the
\* number of consecutive qualifying days counted backward from yesterday.
C1_EmptyTodayKeepsStreak ==
    answered /\ ~hasActivity(in, 0) => response.data.streakDays = RunLength(in, 1)

\* no activity today, activity yesterday and the day before, none three days ago
C1_Witness ==
    /\ answered
    /\ ~hasActivity(in, 0) /\ hasActivity(in, 1) /\ hasActivity(in, 2) /\ ~hasActivity(in, 3)
    /\ response.data.streakDays = 2

\* the smallest index >= 1 of a day without activity (StreakScanDays if there is none)
FirstGap(inp) == 1 + RunLength(inp, 1)

\* C2: streakDays is the number of qualifying days among days 0..k-1, k the
\* smallest index >= 1 that does not qualify; older days never add to it.
C2_StreakStopsAtFirstGap ==
    answered =>
        response.data.streakDays =
            Cardinality({i \in 0..(FirstGap(in) - 1) : hasActivity(in, i)})

\* days 0 and 1 qualify, day 2 does not, day 3 does: the streak is 2
C2_Witness ==
    /\ answered
    /\ hasActivity(in, 0) /\ hasActivity(in, 1) /\ ~hasActivity(in, 2) /\ hasActivity(in, 3)
    /\ response.data.streakDays = 2

\* a day qualifies as the claim C3 has it: any duration that is present counts
ClaimedQualifies(inp, i) ==
    LET dayStart == startOfDay(subDays(today(inp), i))
        fs == filteredSessions(inp)
    IN  \/ \E k \in 1..Len(fs) :
              /\ fs[k].duration # undefined
              /\ isWithinInterval(fs[k].startTime, dayStart, dayStart + DayMs)
        \/ /\ externalApplies(inp.activityId)
           /\ \E k \in 1..Len(inp.dreamingSpanishData) :
                 inp.dreamingSpanishData[k].date = format(dayStart)

RECURSIVE ClaimedStreak(_, _, _)
ClaimedStreak(inp, i, n) ==
    IF ~(i < StreakScanDays) THEN n
    ELSE IF ClaimedQualifies(inp, i) THEN ClaimedStreak(inp, i + 1, n + 1)
    ELSE IF i > 0 THEN n
    ELSE ClaimedStreak(inp, i + 1, n)

\* C3: a day qualifies for the streak iff some filtered session with a
\* duration present, whatever its value, starts in the day's interval, or an
\* applicable external entry is dated that day; the streak counts those days.
C3_StoppedSessionQualifies ==
    answered => response.data.streakDays = ClaimedStreak(in, 0, 0)

-----------------------------------------------------------------------------
(* Properties of the totals *)

InTodayHalfOpen(inp, s) ==
    s.startTime >= today(inp) /\ s.startTime < today(inp) + DayMs

\* C4: totalTimeToday counts only sessions that start in the half-open window
\* [startOfDay(now), startOfDay(now) + 24h): without the other sessions it is
\* the same.
C4_TodayWindowHalfOpen ==
    answered =>
        response.data.totalTimeToday =
            roundMinutes(totalTimeToday(
                [in EXCEPT !.sessions = SelectSeq(@, LAMBDA s : InTodayHalfOpen(in, s))]))

WithoutRunning(inp) ==
    [inp EXCEPT !.sessions = SelectSeq(@, LAMBDA s : s.duration # undefined)]

\* C5: sessions without a duration (still running) contribute nothing: the
\* statistics are those of the store without them, in every field.
C5_RunningSessionsIgnored ==
    answered => response.data = computeStatistics(WithoutRunning(in))

\* a running session of the requested activity that started today is the
\* only session of today, and today neither counts nor has minutes
C5_Witness ==
    /\ answered
    /\ \E k \in 1..Len(filteredSessions(in)) :
          /\ filteredSessions(in)[k].duration = undefined
          /\ InTodayHalfOpen(in, filteredSessions(in)[k])
    /\ response.data # computeStatistics([in EXCEPT !.sessions = <<>>])
    /\ ~hasActivity(in, 0)
    /\ response.data.totalTimeToday = 0

-----------------------------------------------------------------------------
(* Properties of dailyProgress *)

\* the entries of seq at the indices in I, added up
RECURSIVE SumAt(_, _)
SumAt(seq, I) ==
    IF I = {} THEN 0
    ELSE LET k == CHOOSE k \in I : TRUE IN seq[k] + SumAt(seq, I \ {k})

\* seconds of the completed sessions in ss whose date field is d
SessionSecondsDated(ss, d) ==
    SumAt([k \in 1..Len(ss) |-> IF ss[k].duration = undefined THEN 0 ELSE ss[k].duration[1]],
          {k \in 1..Len(ss) : ss[k].duration # undefined /\ ss[k].date = d})

\* seconds of the external entries dated d
ExternalSecondsDated(es, d) ==
    SumAt([k \in 1..Len(es) |-> es[k].timeSeconds], {k \in 1..Len(es) : es[k].date = d})

\* the sessions the activityId parameter selects
Selected(inp) ==
    IF inp.activityId = NoFilter THEN inp.sessions
    ELSE SelectSeq(inp.sessions, LAMBDA s : s.activityId = inp.activityId)

\* external data applies: no filter, or the filter is the designated activity
Applies(inp) == inp.activityId \in {NoFilter, spanishActivityId}

DaySeconds(inp, d) ==
    SessionSecondsDated(Selected(inp), d)
      + (IF Applies(inp) THEN ExternalSecondsDated(inp.dreamingSpanishData, d) ELSE 0)

\* C6: dailyProgress has exactly 30 entries, one per calendar day, from
\* today - 29 up to the date of now; a date without activity is present with 0.
C6_DailyProgressThirtyDays ==
    answered =>
        LET dp == response.data.dailyProgress
        IN  /\ Len(dp) = 30
            /\ dp[30].date = format(now)
            /\ dp[1].date = format(now) - 29
            /\ \A k \in 1..29 : dp[k + 1].date = dp[k].date + 1
            /\ \A k \in 1..30 :
                  (/\ \A j \in 1..Len(Selected(in)) :
                         Selected(in)[j].duration # undefined => Selected(in)[j].date # dp[k].date
                   /\ Applies(in) =>
                         \A j \in 1..Len(dreamingSpanishData) :
                             dreamingSpanishData[j].date # dp[k].date)
                  => dp[k].totalMinutes = 0

\* asked in the middle of a day: yesterday has minutes, today is present with 0
C6_Witness ==
    /\ answered
    /\ now # startOfDay(now)
    /\ Len(response.data.dailyProgress) = 30
    /\ response.data.dailyProgress[30] = [date |-> format(now), totalMinutes |-> 0]
    /\ response.data.dailyProgress[29].totalMinutes > 0

\* C7: the totalMinutes of a dailyProgress entry is the combined seconds of the
\* completed filtered sessions dated that day and of the applicable external
\* entries of that day, divided by 60 and rounded once.
C7_DailyProgressRoundsOnce ==
    answered =>
        \A k \in 1..Len(response.data.dailyProgress) :
            LET e == response.data.dailyProgress[k]
            IN  e.totalMinutes = (DaySeconds(in, e.date) + 30) \div 60

\* external 600 s and a 300 s session of the same day give 15; two half
\* minutes, one from each source, give 1
C7_Witness ==
    /\ answered
    /\ \E k \in 1..Len(response.data.dailyProgress) :
          LET e == response.data.dailyProgress[k]
          IN  /\ SessionSecondsDated(Selected(in), e.date) \in {30, 300}
              /\ ExternalSecondsDated(dreamingSpanishData, e.date)
                    = IF SessionSecondsDated(Selected(in), e.date) = 300 THEN 600 ELSE 30
              /\ Applies(in)
              /\ e.totalMinutes = IF SessionSecondsDated(Selected(in), e.date) = 300 THEN 15 ELSE 1

-----------------------------------------------------------------------------
(* Properties of the goals and of the breakdown *)

\* seconds the goal of activity a is measured by: its completed sessions whose
\* date field is today's date, and today's external entries for the designated
\* activity
GoalSeconds(inp, a) ==
    SessionSecondsDated(SelectSeq(inp.sessions, LAMBDA s : s.activityId = a.id),
                        format(inp.now))
      + (IF a.id = spanishActivityId
         THEN ExternalSecondsDated(inp.dreamingSpanishData, format(inp.now))
         ELSE 0)

\* C8: completedGoalsToday is the number of activities with an active daily
\* goal and a target set (a target of 0 counts as not set, as in the route that
\* stores it), restricted to the filtered activity, whose minutes dated today
\* are >= targetMinutes.
C8_CompletedGoalsToday ==
    answered =>
        response.data.completedGoalsToday =
            Cardinality({a \in activities :
                /\ a.goalIsActive
                /\ a.targetMinutes # undefined /\ a.targetMinutes # Some(0)
                /\ a.goalType = "daily"
                /\ activityId # NoFilter => a.id = activityId
                /\ GoalSeconds(in, a) >= 60 * a.targetMinutes[1]})

\* one 1800 s session today against a 30-minute daily goal
C8_Witness ==
    /\ answered
    /\ Len(sessions) = 1
    /\ sessions[1].duration = Some(1800)
    /\ sessions[1].date = format(now)
    /\ dreamingSpanishData = <<>>
    /\ \E a \in activities :
          a.id = sessions[1].activityId /\ a.goalIsActive /\ a.goalType = "daily"
             /\ a.targetMinutes = Some(30)
    /\ response.data.completedGoalsToday = 1
    /\ response.data.totalTimeToday = 30

\* C9: when the total of the breakdown minutes is > 0 the percentages sum to
\* 100 within 1 per entry; when it is 0 every percentage is 0.
C9_PercentagesSumTo100 ==
    answered =>
        LET bd    == response.data.activityBreakdown
            total == sumMinutes(activityStats(in))
            sum   == SumAt([k \in 1..Len(bd) |-> bd[k].percentage], 1..Len(bd))
        IN  /\ total > 0 => sum - 100 <= Len(bd) /\ 100 - sum <= Len(bd)
            /\ total = 0 => \A k \in 1..Len(bd) : bd[k].percentage = 0

\* two activities share the time and the rounded percentages do not add up to 100
C9_Witness ==
    /\ answered
    /\ Len(response.data.activityBreakdown) = 2
    /\ sumMinutes(activityStats(in)) > 0
    /\ response.data.activityBreakdown[1].percentage
         + response.data.activityBreakdown[2].percentage # 100

-----------------------------------------------------------------------------
(* Properties of the activityId filter *)

\* the store as the filter activityId lets the request see it
OnlyFiltered(inp) ==
    [inp EXCEPT !.sessions = SelectSeq(@, LAMBDA s : s.activityId = inp.activityId),
                !.dreamingSpanishData =
                    IF inp.activityId = spanishActivityId THEN @ ELSE <<>>]

WithoutGoals(st) ==
    [f \in {"totalTimeToday", "totalTimeWeek", "totalTimeMonth", "streakDays",
            "dailyProgress", "activityBreakdown"} |-> st[f]]

\* C10: with a filter X the totals, the streak, dailyProgress and the breakdown
\* are those of the store without the sessions of other activities and, unless
\* X is the designated external activity, without the external entries; with
\* no filter an external entry counts for its day in the streak and in
\* dailyProgress.
C10_FilterRestrictsInputs ==
    answered =>
        /\ activityId # NoFilter =>
              WithoutGoals(response.data) = WithoutGoals(computeStatistics(OnlyFiltered(in)))
        /\ activityId = NoFilter =>
              \A j \in 1..Len(dreamingSpanishData) :
                 LET d == dreamingSpanishData[j].date
                     i == format(now) - d
                 IN  /\ i \in 1..29 /\ (\A n \in 1..i : hasActivity(in, n))
                         => response.data.streakDays >= i
                     /\ i = 0 => response.data.streakDays >= 1
                     /\ i \in 0..29 =>
                          response.data.dailyProgress[30 - i].totalMinutes =
                             (SessionSecondsDated(sessions, d)
                                + ExternalSecondsDated(dreamingSpanishData, d) + 30) \div 60

\* the filter is another activity than the designated one: the completed
\* session of the designated activity and the external entry are in the store
\* and in the unfiltered statistics, and the filtered statistics have neither
C10_Witness ==
    /\ answered
    /\ activityId = "a1"
    /\ dreamingSpanishData # <<>>
    /\ \E k \in 1..Len(sessions) :
          sessions[k].activityId = spanishActivityId /\ Truthy(sessions[k].duration)
    /\ \E k \in 1..Len(sessions) :
          sessions[k].activityId = "a1" /\ Truthy(sessions[k].duration)
    /\ computeStatistics([in EXCEPT !.activityId = NoFilter]).streakDays
          > response.data.streakDays
    /\ Len(response.data.activityBreakdown) = 1

-----------------------------------------------------------------------------
(* Properties of the external entries *)

\* the external entries whose date is d
DatedEntries(es, d) == SelectSeq(es, LAMBDA e : e.date = d)

\* C11: when external data applies, an external entry contributes to
\* totalTimeToday if and only if its date string equals today's date: the
\* total is the one computed with the entries of other dates removed.
C11_ExternalTodayByDate ==
    answered /\ Applies(in) =>
        response.data.totalTimeToday =
            roundMinutes(totalTimeToday(
                [in EXCEPT !.dreamingSpanishData = DatedEntries(@, format(now))]))

\* the breakdown entry of the designated external activity, if there is one
SpanishBuckets(bd) == {k \in 1..Len(bd) : bd[k].activityId = spanishActivityId}

\* C12: when external data applies and the designated Activity record exists,
\* the breakdown has exactly one entry for it, made of the seconds of its
\* completed sessions plus the seconds of all external entries, also when it
\* has no session; without the Activity record the breakdown has no entry.
C12_ExternalBreakdownMerge ==
    answered /\ Applies(in) =>
        LET bd  == response.data.activityBreakdown
            own == SelectSeq(sessions, LAMBDA s : s.activityId = spanishActivityId)
        IN  IF \E a \in activities : a.id = spanishActivityId
            THEN /\ Cardinality(SpanishBuckets(bd)) = 1
                 /\ \A k \in SpanishBuckets(bd) :
                       bd[k].totalMinutes =
                           roundMinutes(sumDuration(own) + sumTimeSeconds(dreamingSpanishData))
            ELSE SpanishBuckets(bd) = {}

\* the designated activity exists, has no session, and its entry carries the
\* external minutes
C12_Witness ==
    /\ answered /\ Applies(in)
    /\ \E a \in activities : a.id = spanishActivityId
    /\ \A k \in 1..Len(sessions) : sessions[k].activityId # spanishActivityId
    /\ dreamingSpanishData # <<>>
    /\ \E k \in SpanishBuckets(response.data.activityBreakdown) :
          response.data.activityBreakdown[k].totalMinutes = 10

\* external entries and sessions of the designated activity, but no Activity
\* record: nothing of them is in the breakdown
C12_WitnessNoRecord ==
    /\ answered /\ Applies(in)
    /\ \A a \in activities : a.id # spanishActivityId
    /\ dreamingSpanishData # <<>>
    /\ \E k \in 1..Len(sessions) : sessions[k].activityId = spanishActivityId
    /\ SpanishBuckets(response.data.activityBreakdown) = {}

-----------------------------------------------------------------------------
(* The bound of the streak scan: stores with a year of external entries *)

\* one external entry per day from day first to day last
DenseEntries(first, last) ==
    [k \in 1..(last - first + 1) |-> [date |-> first + k - 1, timeSeconds |-> 60]]

\* lengths of the runs of days with an entry: none, one, and around the scan
RunLengths == {0, 1, StreakScanDays - 1, StreakScanDays, StreakScanDays + 1}

\* the run ends today, yesterday or the day before
RunEnds == {Today, Today - 1, Today - 2}

LongStores ==
    [activities : ActivitySets({NoGoal}, {Daily30}, FALSE),
     sessions : SessionLists({"a1"}, {midday(Today), midday(Today - 1)}, {0}, {Some(1800)}),
     dreamingSpanishData : {DenseEntries(e - n + 1, e) : n \in RunLengths, e \in RunEnds},
     clock : {midday(Today)}]

InitLong ==
    /\ \E st \in LongStores :
          /\ activities = st.activities
          /\ sessions = st.sessions
          /\ dreamingSpanishData = st.dreamingSpanishData
          /\ clock = st.clock
    /\ activityId = NoFilter
    /\ now = 0
    /\ response = NoResponse
    /\ NoCheckboxes
    /\ NoGoals
    /\ NoMigrations

SpecLong == InitLong /\ [][Next]_vars

\* C15: streakDays is between 0 and 365 whatever the length of the run of
\* qualifying days, and it is 0 when none of the days i = 0..364 qualifies.
C15_StreakBounded ==
    answered =>
        /\ response.data.streakDays \in 0..StreakScanDays
        /\ (\A i \in 0..(StreakScanDays - 1) : ~hasActivity(in, i))
              => response.data.streakDays = 0

\* 366 days in a row qualify (i = 0..365) and the streak is 365
C15_Witness ==
    /\ answered
    /\ \A i \in 0..StreakScanDays : hasActivity(in, i)
    /\ response.data.streakDays = StreakScanDays

\* a year of external entries that the filter keeps out: no day qualifies
C15_WitnessZero ==
    /\ answered
    /\ activityId = "a1" /\ Len(dreamingSpanishData) >= StreakScanDays
    /\ \A i \in 0..(StreakScanDays - 1) : ~hasActivity(in, i)
    /\ response.data.streakDays = 0

-----------------------------------------------------------------------------
(* Empty and malformed inputs *)

StoredSession(id, act, startTime, date) ==
    [id |-> id, activityId |-> act, startTime |-> startTime, date |-> date,
     duration |-> Some(1800), isRunning |-> FALSE]

\* s1 with an unparseable or a good startTime and a malformed or a good date,
\* and s2 well formed
MalformedSessionLists ==
    LET first  == {<<StoredSession("s1", a, t, d)>> :
                      a \in ActivityIds, t \in {NaN, midday(Today)},
                      d \in {MalformedDate, Today, Today - 1}} \cup {<<>>}
        second == {<<Session("s2", "a1", midday(Today - 1), 0, Some(1800))>>, <<>>}
    IN  {x \o y : x \in first, y \in second}

\* a malformed entry, a good one, both, or none
MalformedEntryLists ==
    LET bad  == [date |-> MalformedDate, timeSeconds |-> 3000]
        good == [date |-> Today, timeSeconds |-> 3000]
    IN  {<<>>, <<bad>>, <<good>>, <<bad, good>>}

MalformedStores ==
    [activities : ActivitySets({Daily30}, {Daily30}, FALSE),
     sessions : MalformedSessionLists,
     dreamingSpanishData : MalformedEntryLists,
     clock : {midnight(Today), midday(Today)}]

InitMalformed ==
    /\ \E st \in MalformedStores :
          /\ activities = st.activities
          /\ sessions = st.sessions
          /\ dreamingSpanishData = st.dreamingSpanishData
          /\ clock = st.clock
    /\ activityId = NoFilter
    /\ now = 0
    /\ response = NoResponse
    /\ NoCheckboxes
    /\ NoGoals
    /\ NoMigrations

SpecMalformed == InitMalformed /\ [][Next]_vars

\* the input without the records whose startTime or date cannot be parsed
WithoutMalformed(inp) ==
    [inp EXCEPT !.sessions = SelectSeq(@, LAMBDA s : s.startTime # NaN),
                !.dreamingSpanishData = SelectSeq(@, LAMBDA e : e.date # MalformedDate)]

DateKeyed(st) ==
    [f \in {"totalTimeToday", "totalTimeWeek", "totalTimeMonth", "streakDays",
            "dailyProgress", "completedGoalsToday"} |-> st[f]]

\* C17: the request succeeds, and the window totals, the streak,
\* dailyProgress and the completed goals are those computed without the
\* sessions whose startTime, and the external entries whose date, cannot be
\* parsed.
C17_MalformedExcluded ==
    answered =>
        DateKeyed(response.data) = DateKeyed(computeStatistics(WithoutMalformed(in)))

\* the same for the external entries alone
C17_MalformedEntriesExcluded ==
    answered /\ (\A k \in 1..Len(sessions) : sessions[k].startTime # NaN) =>
        DateKeyed(response.data) = DateKeyed(computeStatistics(WithoutMalformed(in)))

-----------------------------------------------------------------------------
(* The system clock *)

\* ticks the clock advances after the first request
MaxTicks == 3

\* new Date() returns a later instant
Tick ==
    /\ clock < midday(Today) + MaxTicks
    /\ clock' = clock + 1
    /\ UNCHANGED <<activities, sessions, dreamingSpanishData>>
    /\ UNCHANGED <<activityId, now, response, checkboxStore, goalStore, migrationStore>>

\* sessions of today and yesterday and an external entry of today
ClockStores ==
    [activities : ActivitySets({NoGoal}, {Daily30}, FALSE),
     sessions : SessionLists({"a1"}, {midday(Today), midday(Today - 1)}, {0}, {Some(1800)}),
     dreamingSpanishData : EntryLists({Today}, {3000}),
     clock : {midday(Today)}]

InitClock ==
    /\ \E st \in ClockStores :
          /\ activities = st.activities
          /\ sessions = st.sessions
          /\ dreamingSpanishData = st.dreamingSpanishData
          /\ clock = st.clock
    /\ activityId = NoFilter
    /\ now = 0
    /\ response = NoResponse
    /\ NoCheckboxes
    /\ NoGoals
    /\ NoMigrations

NextClock == (\E id \in Filters : GET(id)) \/ Tick

SpecClock == InitClock /\ [][NextClock]_vars

\* C14: the statistics are determined by the inputs the caller passes
\* (activities, sessions, external entries, activity filter), now being one
\* of them and not read from the system clock: a request repeated with the
\* same activityId over the same stores gets the same statistics.
C14_NowIsInput ==
    [][\A id \in Filters :
          GET(id) /\ answered /\ activityId = id => response'.data = response.data]_vars

-----------------------------------------------------------------------------
(* The sessions route (start, stop and delete a session) over the           *)
(* synchronous Database of lib/db.ts: a handler reads the session file,     *)
(* decides and writes it back without yielding, so each request is one step *)

\* the values uuidv4() can return
SessionIds == {"s1", "s2"}

\* milliseconds of one tick (DayMs ticks make 24 hours)
TickMs == 43200000

\* the endTime a stop request can carry: none, an instant before or after
\* the start, or a string that is no date
EndTimes == {undefined, Some(midday(Today) - 1), Some(midday(Today) + 1), Some(NaN)}

errorResponse(status, error) == [success |-> FALSE, status |-> status, error |-> error]

\* the running session POST stores
newSession(id, act, t) ==
    [id |-> id, activityId |-> act, startTime |-> t, date |-> format(t),
     endTime |-> undefined, duration |-> undefined, isRunning |-> TRUE]

\* mutant: the start does not look for a running session
runningSessionNone(ss, act) == {}

\* sessions.find((s) => s.activityId === activityId && s.isRunning)
runningSession(ss, act) ==
    {k \in 1..Len(ss) : ss[k].activityId = act /\ ss[k].isRunning}

\* Math.floor((endTimeDate.getTime() - startTime.getTime()) / 1000); NaN when
\* either date is invalid (saveSessions then writes it as null)
durationSeconds(startTime, endTime) ==
    IF startTime = NaN \/ endTime = NaN THEN NaN
    ELSE ((endTime - startTime) * TickMs) \div 1000

\* POST /api/sessions with body { activityId: act }; "" is a missing activityId
SessionPOST(act) ==
    /\ IF act = ""
       THEN /\ response' = errorResponse(400, "Activity ID is required")
            /\ UNCHANGED sessions
       ELSE IF runningSession(sessions, act) # {}
       THEN /\ response' = errorResponse(400,
                              "There is already a running session for this activity")
            /\ UNCHANGED sessions
       ELSE \E id \in SessionIds \ {sessions[k].id : k \in 1..Len(sessions)} :
               /\ sessions' = Append(sessions, newSession(id, act, clock))
               /\ response' = [success |-> TRUE, status |-> 201,
                               data |-> newSession(id, act, clock)]
    /\ UNCHANGED <<activities, dreamingSpanishData, clock, activityId, now, checkboxStore, goalStore, migrationStore>>

\* mutant: a session that was stopped can be stopped again
notRunningNever(session) == FALSE

\* if (!session.isRunning)
notRunning(session) == ~session.isRunning

\* PUT /api/sessions with body { id, endTime }; "" is a missing id
SessionPUT(id, endTime) ==
    /\ IF id = ""
       THEN /\ response' = errorResponse(400, "Session ID is required")
            /\ UNCHANGED sessions
       ELSE IF \A k \in 1..Len(sessions) : sessions[k].id # id
       THEN /\ response' = errorResponse(404, "Session not found")
            /\ UNCHANGED sessions
       ELSE LET sessionIndex == CHOOSE k \in 1..Len(sessions) : sessions[k].id = id
                session == sessions[sessionIndex]
                sessionEndTime == IF endTime # undefined THEN endTime[1] ELSE clock
                updatedSession ==
                    [session EXCEPT
                        !.endTime = Some(sessionEndTime),
                        !.duration = Some(durationSeconds(session.startTime, sessionEndTime)),
                        !.isRunning = FALSE]
            IN  IF notRunning(session)
                THEN /\ response' = errorResponse(400, "Session is not running")
                     /\ UNCHANGED sessions
                ELSE /\ sessions' = [sessions EXCEPT ![sessionIndex] = updatedSession]
                     /\ response' = [success |-> TRUE, status |-> 200,
                                     data |-> updatedSession]
    /\ UNCHANGED <<activities, dreamingSpanishData, clock, activityId, now, checkboxStore, goalStore, migrationStore>>

\* DELETE /api/sessions?id=id; "" is a missing id
SessionDELETE(id) ==
    /\ IF id = ""
       THEN /\ response' = errorResponse(400, "Session ID is required")
            /\ UNCHANGED sessions
       ELSE LET filteredSessions_ == SelectSeq(sessions, LAMBDA s : s.id # id)
            IN  IF Len(filteredSessions_) = Len(sessions)
                THEN /\ response' = errorResponse(404, "Session not found")
                     /\ UNCHANGED sessions
                ELSE /\ sessions' = filteredSessions_
                     /\ response' = [success |-> TRUE, status |-> 200]
    /\ UNCHANGED <<activities, dreamingSpanishData, clock, activityId, now, checkboxStore, goalStore, migrationStore>>

\* a new store: two activities and no session
InitSessions ==
    /\ activities = {Activity(spanishActivityId, NoGoal), Activity("a1", Daily30)}
    /\ sessions = <<>>
    /\ dreamingSpanishData = <<>>
    /\ clock = midday(Today)
    /\ activityId = NoFilter
    /\ now = 0
    /\ response = NoResponse
    /\ NoCheckboxes
    /\ NoGoals
    /\ NoMigrations

NextSessions ==
    \/ \E act \in ActivityIds \cup {""} : SessionPOST(act)
    \/ \E id \in SessionIds \cup {""}, endTime \in EndTimes : SessionPUT(id, endTime)
    \/ \E id \in SessionIds \cup {""} : SessionDELETE(id)
    \/ Tick

SpecSessions == InitSessions /\ [][NextSessions]_vars

\* the stored sessions of an activity that are running
Running(ss, act) == {s \in {ss[k] : k \in 1..Len(ss)} : s.activityId = act /\ s.isRunning}

\* C18: after every request the store has at most one running session per
\* activityId, and a start request for an activity that has a running session
\* is rejected and leaves the stored sessions as they were.
C18_OneRunningSession ==
    [][/\ \A act \in ActivityIds : Cardinality(Running(sessions', act)) <= 1
       /\ \A act \in ActivityIds :
             SessionPOST(act) /\ Running(sessions, act) # {}
                => sessions' = sessions /\ ~response'.success /\ response'.status = 400]_vars

\* both activities have a running session and one more start was rejected
C18_Witness ==
    /\ \A act \in ActivityIds : Cardinality(Running(sessions, act)) = 1
    /\ response = errorResponse(400, "There is already a running session for this activity")

\* C20: a stored session has a duration if and only if it is not running, and
\* every duration is a number of seconds >= 0, whatever endTime the stop
\* request carried.
C20_DurationIffStopped ==
    \A k \in 1..Len(sessions) :
        /\ sessions[k].duration # undefined <=> ~sessions[k].isRunning
        /\ sessions[k].duration # undefined =>
              sessions[k].duration[1] # NaN /\ sessions[k].duration[1] >= 0

\* the first half of C20 alone
C20_DurationPresentIffStopped ==
    \A k \in 1..Len(sessions) :
        sessions[k].duration # undefined <=> ~sessions[k].isRunning

-----------------------------------------------------------------------------
(* The checkboxes route.  A handler awaits Database.getCheckboxes() and     *)
(* later Database.saveCheckboxes(list): other requests can run between the  *)
(* read and the write, so a request is two steps, and pending[r] holds the  *)
(* request of client r and the list it has read.  notes are left out.       *)

\* the values uuidv4() can return
CheckboxIds == {"c1", "c2"}

\* the dates a request can name
CheckboxDates == {Today}

Request(op, id, act, date, isChecked) ==
    [op |-> op, id |-> id, activityId |-> act, date |-> date, isChecked |-> isChecked,
     list |-> <<>>]

\* the requests a client can send; "" is a missing id or activityId.  A POST
\* leaves isChecked out (create checked, or toggle), a PUT unchecks
CheckboxRequests ==
    {Request("POST", "", act, d, undefined) :
        act \in ActivityIds \cup {""}, d \in CheckboxDates}
    \cup {Request("PUT", id, "", Today, Some(FALSE)) : id \in CheckboxIds \cup {""}}
    \cup {Request("DELETE", id, "", Today, undefined) : id \in CheckboxIds \cup {""}}

\* the records of the list with the given activityId and date
samePair(list, act, date) ==
    {k \in 1..Len(list) : list[k].activityId = act /\ list[k].date = date}

\* mutant: upsert({ where: { id }, ... })
upsertById(table, cb) ==
    LET rows == {k \in 1..Len(table) : table[k].id = cb.id}
    IN  IF rows # {}
        THEN [k \in 1..Len(table) |-> IF k \in rows THEN cb ELSE table[k]]
        ELSE Append(table, cb)

\* upsert({ where: { activityId_date }, update: data, create: data })
upsert(table, cb) ==
    LET rows == samePair(table, cb.activityId, cb.date)
    IN  IF rows # {}
        THEN [k \in 1..Len(table) |-> IF k \in rows THEN cb ELSE table[k]]
        ELSE Append(table, cb)

RECURSIVE upsertAll(_, _)
\* DatabaseClient.saveCheckboxes: one transaction that upserts every record
upsertAll(table, list) ==
    IF list = <<>> THEN table ELSE upsertAll(upsert(table, Head(list)), Tail(list))

\* Database.saveCheckboxes(list): lib/db.ts overwrites the file, the
\* DatabaseClient upserts into the table
saveCheckboxes(list) ==
    IF backend = "file" THEN list ELSE upsertAll(checkboxes, list)

\* the ids of the stored records and of the lists read by requests in flight
usedCheckboxIds ==
    {checkboxes[k].id : k \in 1..Len(checkboxes)}
      \cup UNION {{pending[r].list[k].id : k \in 1..Len(pending[r].list)} :
                    r \in {q \in Requests : pending[q].op # "idle"}}

status(code) == [success |-> code < 400, status |-> code]

\* a request arrives: the body or the query is checked and the list is read
CheckboxRequest(r, req) ==
    /\ pending[r].op = "idle"
    /\ IF (req.op = "POST" /\ (req.activityId = "" \/ req.date = MalformedDate))
            \/ (req.op # "POST" /\ req.id = "")
       THEN /\ response' = status(400)
            /\ UNCHANGED pending
       ELSE /\ pending' = [pending EXCEPT ![r] = [req EXCEPT !.list = checkboxes]]
            /\ UNCHANGED response
    /\ UNCHANGED <<store, activityId, now, checkboxes, backend, goalStore, migrationStore>>

\* POST /api/checkboxes after the read: update the record of the pair or
\* create one, save, answer
CheckboxPOST(r) ==
    /\ pending[r].op = "POST"
    /\ LET req == pending[r]
           existing == samePair(req.list, req.activityId, req.date)
       IN  IF existing # {}
           THEN LET k == CHOOSE k \in existing : \A j \in existing : k <= j
                    updated == [req.list EXCEPT ![k].isChecked =
                                   IF req.isChecked # undefined THEN req.isChecked[1] ELSE ~@]
                IN  /\ checkboxes' = saveCheckboxes(updated)
                    /\ response' = status(200)
           ELSE \E id \in CheckboxIds \ usedCheckboxIds :
                   LET newCheckbox ==
                           [id |-> id, activityId |-> req.activityId, date |-> req.date,
                            isChecked |-> IF req.isChecked # undefined
                                          THEN req.isChecked[1] ELSE TRUE]
                   IN  /\ checkboxes' = saveCheckboxes(Append(req.list, newCheckbox))
                       /\ response' = status(201)
    /\ pending' = [pending EXCEPT ![r] = Idle]
    /\ UNCHANGED <<store, activityId, now, backend, goalStore, migrationStore>>

\* PUT /api/checkboxes after the read
CheckboxPUT(r) ==
    /\ pending[r].op = "PUT"
    /\ LET req == pending[r]
           found == {k \in 1..Len(req.list) : req.list[k].id = req.id}
       IN  IF found = {}
           THEN /\ response' = status(404)
                /\ UNCHANGED checkboxes
           ELSE LET checkboxIndex == CHOOSE k \in found : \A j \in found : k <= j
                    updated == [req.list EXCEPT ![checkboxIndex].isChecked =
                                   IF req.isChecked # undefined THEN req.isChecked[1] ELSE @]
                IN  /\ checkboxes' = saveCheckboxes(updated)
                    /\ response' = status(200)
    /\ pending' = [pending EXCEPT ![r] = Idle]
    /\ UNCHANGED <<store, activityId, now, backend, goalStore, migrationStore>>

\* DELETE /api/checkboxes?id= after the read
CheckboxDELETE(r) ==
    /\ pending[r].op = "DELETE"
    /\ LET req == pending[r]
           filteredCheckboxes == SelectSeq(req.list, LAMBDA c : c.id # req.id)
       IN  IF Len(filteredCheckboxes) = Len(req.list)
           THEN /\ response' = status(404)
                /\ UNCHANGED checkboxes
           ELSE /\ checkboxes' = saveCheckboxes(filteredCheckboxes)
                /\ response' = status(200)
    /\ pending' = [pending EXCEPT ![r] = Idle]
    /\ UNCHANGED <<store, activityId, now, backend, goalStore, migrationStore>>

\* activity a1 has no session; the designated activity has one of 30 minutes
InitialStore ==
    [activities |-> {Activity(spanishActivityId, NoGoal), Activity("a1", Daily30)},
     sessions |-> <<Session("s1", spanishActivityId, midday(Today), 0, Some(1800))>>,
     dreamingSpanishData |-> <<>>,
     clock |-> midday(Today)]

InitCheckboxes ==
    /\ activities = InitialStore.activities
    /\ sessions = InitialStore.sessions
    /\ dreamingSpanishData = InitialStore.dreamingSpanishData
    /\ clock = InitialStore.clock
    /\ activityId = NoFilter
    /\ now = 0
    /\ response = NoResponse
    /\ checkboxes = <<>>
    /\ pending = [r \in Requests |-> Idle]
    /\ backend \in {"file", "database"}
    /\ NoGoals
    /\ NoMigrations

NextCheckboxes ==
    \/ \E r \in Requests, req \in CheckboxRequests : CheckboxRequest(r, req)
    \/ \E r \in Requests : CheckboxPOST(r)
    \/ \E r \in Requests : CheckboxPUT(r)
    \/ \E r \in Requests : CheckboxDELETE(r)

SpecCheckboxes == InitCheckboxes /\ [][NextCheckboxes]_vars

\* C19: the checkbox store never holds two records with the same
\* (activityId, date), however the requests interleave; a POST for a pair
\* that has a record changes that record and adds none.
C19_OneCheckboxPerPair ==
    \A j, k \in 1..Len(checkboxes) :
        j # k => <<checkboxes[j].activityId, checkboxes[j].date>>
                    # <<checkboxes[k].activityId, checkboxes[k].date>>

\* both pairs have a record and the last POST updated one of them
C19_Witness ==
    /\ Len(checkboxes) = 2
    /\ response = status(200)
    /\ \E k \in 1..Len(checkboxes) : ~checkboxes[k].isChecked


\* the activities of the checked checkboxes that have no session at all
CheckedWithoutSessions(cbs, ss) ==
    {cbs[k].activityId : k \in {j \in 1..Len(cbs) : cbs[j].isChecked}}
       \ {ss[k].activityId : k \in 1..Len(ss)}

\* the statistics of every filter before any checkbox request
InitialStatistics ==
    [id \in Filters |->
        computeStatistics([activities |-> InitialStore.activities,
                           sessions |-> InitialStore.sessions,
                           dreamingSpanishData |-> InitialStore.dreamingSpanishData,
                           activityId |-> id, now |-> InitialStore.clock])]

\* C13: whatever checkbox requests (create, toggle, update, delete) have been
\* served or are in flight, the statistics of every filter are those of the
\* stores before the first of them, and an activity with a checked checkbox
\* and no session has no minutes in the breakdown.
C13_CheckboxesOutsideStatistics ==
    /\ \A id \in Filters : computeStatistics(Input(id, clock)) = InitialStatistics[id]
    /\ \A act \in CheckedWithoutSessions(checkboxes, sessions) :
          \A k \in 1..Len(activityBreakdown(Input(NoFilter, clock))) :
              activityBreakdown(Input(NoFilter, clock))[k].activityId = act
                 => activityBreakdown(Input(NoFilter, clock))[k].totalMinutes = 0

\* activity a1 has a checked checkbox and no session, and the statistics
\* hold the 30 minutes of the other activity only
C13_Witness ==
    /\ "a1" \in CheckedWithoutSessions(checkboxes, sessions)
    /\ response = status(201)
    /\ computeStatistics(Input(NoFilter, clock)).totalTimeToday = 30
    /\ Len(activityBreakdown(Input(NoFilter, clock))) = 1

-----------------------------------------------------------------------------
(* Sessions on a midnight, dates that differ from startTime, window order *)

\* the records that can make a day qualify under the filter of the request
QualifyingRecords(inp) ==
    Cardinality({k \in 1..Len(Selected(inp)) : Truthy(Selected(inp)[k].duration)})
      + (IF Applies(inp) THEN Len(inp.dreamingSpanishData) ELSE 0)

\* C22: a completed session makes exactly one calendar day qualify, also when
\* its startTime is exactly a local midnight: streakDays never exceeds the
\* number of records that can make a day qualify, so one session gives at
\* most 1.
C22_OneDayPerSession ==
    answered => response.data.streakDays <= QualifyingRecords(in)


\* every session is dated the day of its startTime, none starts on a midnight
DatesMatchStartTimes(ss) ==
    \A k \in 1..Len(ss) :
        /\ ss[k].date = format(ss[k].startTime)
        /\ ss[k].startTime # startOfDay(ss[k].startTime)

C23_WitnessDiffer ==
    /\ answered
    /\ dreamingSpanishData = <<>>
    /\ \E k \in 1..Len(sessions) : sessions[k].date # format(sessions[k].startTime)
    /\ response.data.totalTimeToday
          # response.data.dailyProgress[ProgressDays].totalMinutes


\* C24: with durations that are not negative, totalTimeToday <= totalTimeWeek
\* and totalTimeToday <= totalTimeMonth: the week and the month start no
\* later than today and have no end.
C24_TodayWithinWeekAndMonth ==
    answered /\ (\A k \in 1..Len(sessions) : OrZero(sessions[k].duration) >= 0) =>
        /\ response.data.totalTimeToday <= response.data.totalTimeWeek
        /\ response.data.totalTimeToday <= response.data.totalTimeMonth

\* asked at midnight: a session that starts later today is in all three
\* totals, and one of an earlier day of the week only in the week
C24_Witness ==
    /\ answered
    /\ now = startOfDay(now)
    /\ \E k \in 1..Len(sessions) : sessions[k].startTime > now
    /\ response.data.totalTimeToday = 30
    /\ response.data.totalTimeMonth = 30
    /\ response.data.totalTimeWeek = 60


\* C25: activityBreakdown has at most one entry per activityId, and only for
\* ids of Activity records; the completed sessions of an id without a record
\* are in no entry, though they count in the totals.
C25_BreakdownOfKnownActivities ==
    answered =>
        LET bd == response.data.activityBreakdown
        IN  /\ \A j, k \in 1..Len(bd) : j # k => bd[j].activityId # bd[k].activityId
            /\ \A k \in 1..Len(bd) : \E a \in activities : a.id = bd[k].activityId
            /\ \A k \in 1..Len(bd) :
                  bd[k].totalMinutes =
                      roundMinutes(
                          sumDuration(SelectSeq(Selected(in),
                                        LAMBDA s : s.activityId = bd[k].activityId))
                            + (IF bd[k].activityId = spanishActivityId /\ Applies(in)
                               THEN sumTimeSeconds(dreamingSpanishData) ELSE 0))

\* a completed session of today whose activity has no record: 30 minutes in
\* the total of today and nothing in the breakdown
C25_Witness ==
    /\ answered
    /\ Len(sessions) = 1
    /\ \A a \in activities : a.id # sessions[1].activityId
    /\ dreamingSpanishData = <<>>
    /\ response.data.totalTimeToday = 30
    /\ response.data.streakDays = 1
    /\ response.data.activityBreakdown = <<>>


\* the stored session with the given id, if there is one
Stored(ss, id) == {s \in {ss[k] : k \in 1..Len(ss)} : s.id = id}

\* C26: a stop request for an unknown id or for a session that is not running
\* is answered with an error and leaves the stored sessions as they were; a
\* stopped session keeps its endTime and duration for as long as it is stored.
C26_StopOnlyRunning ==
    [][/\ \A id \in SessionIds, endTime \in EndTimes :
             SessionPUT(id, endTime)
                /\ (Stored(sessions, id) = {} \/ \E s \in Stored(sessions, id) : ~s.isRunning)
                => sessions' = sessions /\ ~response'.success
       /\ \A id \in SessionIds :
             \A s \in Stored(sessions, id), t \in Stored(sessions', id) :
                 ~s.isRunning =>
                    t.endTime = s.endTime /\ t.duration = s.duration /\ ~t.isRunning]_vars

\* a stopped session, later than its stop, and a second stop of it refused
C26_Witness ==
    /\ response = errorResponse(400, "Session is not running")
    /\ \E k \in 1..Len(sessions) :
          /\ sessions[k].endTime # undefined
          /\ sessions[k].endTime[1] # NaN /\ sessions[k].endTime[1] < clock

-----------------------------------------------------------------------------
(* Manual time: the cards post a finished session to the sessions route *)

\* the minutes a user can enter (parseInt(manualMinutes) > 0)
ManualMinutes == {30}

\* the body addManualTime sends: a session of m minutes that ends now
manualTimeBody(act, m) ==
    [activityId |-> act, startTime |-> clock, endTime |-> Some(clock),
     duration |-> Some(60 * m), date |-> format(clock), isRunning |-> FALSE]

\* ActivityCard.addManualTime / Dashboard.addCompactManualTime: the request
\* is served by POST /api/sessions, which reads activityId (and notes) of the
\* body and nothing else
addManualTime(act, m) ==
    /\ m > 0
    /\ SessionPOST(manualTimeBody(act, m).activityId)

InitManual == InitSessions

NextManual ==
    \/ \E act \in ActivityIds, m \in ManualMinutes : addManualTime(act, m)
    \/ \E id \in Filters : GET(id)
    \/ Tick

SpecManual == InitManual /\ [][NextManual]_vars

\* C27: adding m > 0 minutes of manual time that is accepted stores one more
\* session of that activity, not running, with duration 60 * m seconds, and
\* no running session.
C27_ManualTimeStored ==
    [][\A act \in ActivityIds, m \in ManualMinutes :
          addManualTime(act, m) /\ response'.success =>
             /\ Len(sessions') = Len(sessions) + 1
             /\ sessions'[Len(sessions')].activityId = act
             /\ ~sessions'[Len(sessions')].isRunning
             /\ sessions'[Len(sessions')].duration = Some(60 * m)]_vars

\* what does hold: the accepted request stores a running session without duration
C27_ManualTimeStartsSession ==
    [][\A act \in ActivityIds, m \in ManualMinutes :
          addManualTime(act, m) /\ response'.success =>
             /\ sessions'[Len(sessions')].isRunning
             /\ sessions'[Len(sessions')].duration = undefined]_vars

-----------------------------------------------------------------------------
(* Deleting a checkbox *)

\* the list without the record of the given id
WithoutId(list, id) == SelectSeq(list, LAMBDA c : c.id # id)

\* C28: a DELETE that is served with nothing written since its read removes
\* exactly the record of its id when there is one and answers success, and
\* answers not found and changes nothing when there is none.
C28_DeleteRemovesRecord ==
    [][\A r \in Requests :
          CheckboxDELETE(r) /\ pending[r].list = checkboxes =>
             IF \E k \in 1..Len(checkboxes) : checkboxes[k].id = pending[r].id
             THEN response' = status(200) /\ checkboxes' = WithoutId(checkboxes, pending[r].id)
             ELSE response' = status(404) /\ checkboxes' = checkboxes]_vars

\* the same over the Database of lib/db.ts, which overwrites the file
C28_DeleteRemovesRecordInFile ==
    [][\A r \in Requests :
          CheckboxDELETE(r) /\ pending[r].list = checkboxes /\ backend = "file" =>
             IF \E k \in 1..Len(checkboxes) : checkboxes[k].id = pending[r].id
             THEN response' = status(200) /\ checkboxes' = WithoutId(checkboxes, pending[r].id)
             ELSE response' = status(404) /\ checkboxes' = checkboxes]_vars


-----------------------------------------------------------------------------
(* The activities API (src/src/app/api/activities/route.ts).  A request is
   handled in one step.  An activity record of this API carries type,
   resetPeriod, goalType, targetMinutes and goalIsActive, each optional field
   a sequence of length 0 or 1; category, color, description, createdAt and
   isActive are written as received and are left out. *)

\* JSON.stringify writes the number NaN as null
null == -2000000

digitChars == <<"0", "1", "2", "3", "4", "5", "6", "7", "8", "9">>

isDigit(c) == \E d \in 1..10 : digitChars[d] = c

digitValue(c) == (CHOOSE d \in 1..10 : digitChars[d] = c) - 1

\* a text sent by the client, as the tuple of its characters
Text(chars) == [kind |-> "string", chars |-> chars]

\* a JSON number sent by the client
Number(value) == [kind |-> "number", value |-> value]

\* the decimal digits of a natural number
RECURSIVE digitsOf(_)
digitsOf(n) ==
    IF n < 10 THEN <<digitChars[n + 1]>>
    ELSE Append(digitsOf(n \div 10), digitChars[(n % 10) + 1])

\* String(n) for an integer n
String(n) == IF n < 0 THEN <<"-">> \o digitsOf(0 - n) ELSE digitsOf(n)

\* the value of the digits from position i up to the first character that is no digit
RECURSIVE parseDigits(_, _, _)
parseDigits(chars, i, acc) ==
    IF i > Len(chars) \/ ~isDigit(chars[i]) THEN acc
    ELSE parseDigits(chars, i + 1, acc * 10 + digitValue(chars[i]))

\* parseInt(v): the value is converted to a string; an optional sign, then
\* the leading digits; NaN when no digit follows (white space and radix
\* prefixes are not among the inputs)
parseInt(v) ==
    LET chars    == IF v.kind = "number" THEN String(v.value) ELSE v.chars
        signed   == Len(chars) > 0 /\ chars[1] \in {"-", "+"}
        first    == IF signed THEN 2 ELSE 1
        negative == signed /\ chars[1] = "-"
    IN  IF first > Len(chars) \/ ~isDigit(chars[first]) THEN NaN
        ELSE IF negative THEN 0 - parseDigits(chars, first, 0)
        ELSE parseDigits(chars, first, 0)

\* the truthiness of an optional body value: a number other than 0, a text
\* other than ""
isTruthy(v) ==
    /\ v # undefined
    /\ IF v[1].kind = "number" THEN v[1].value # 0 ELSE Len(v[1].chars) > 0

\* the ids that uuidv4 can return
NewActivityIds == {"n1"}

\* the values sent as targetMinutes
TargetMinutesInputs ==
    {undefined, Some(Number(30)), Some(Number(0)), Some(Text(<<"0", ".", "5">>)),
     Some(Text(<<"-", "5">>)), Some(Text(<<"a", "b", "c">>))}

\* the request bodies (name stands for name, category and color): every
\* combination of fields for a time-tracking activity, the goal fields absent
\* or all present for a checkbox activity, and two bodies without a required field
ActivityBodies ==
    [name : {"x"}, type : {"time-tracking"},
     resetPeriod : {undefined, Some("daily")}, goalType : {undefined, Some("weekly")},
     targetMinutes : TargetMinutesInputs, goalIsActive : {undefined, Some(FALSE)}]
    \cup
    [name : {"x"}, type : {"checkbox"},
     resetPeriod : {undefined, Some("daily")}, goalType : {undefined},
     targetMinutes : {undefined}, goalIsActive : {undefined}]
    \cup
    [name : {"x"}, type : {"checkbox"},
     resetPeriod : {undefined, Some("daily")}, goalType : {Some("weekly")},
     targetMinutes : {Some(Number(30))}, goalIsActive : {Some(FALSE)}]
    \cup
    [name : {"", "x"}, type : {""},
     resetPeriod : {undefined}, goalType : {undefined},
     targetMinutes : {undefined}, goalIsActive : {undefined}]
    \cup
    [name : {""}, type : {"checkbox"},
     resetPeriod : {Some("daily")}, goalType : {undefined},
     targetMinutes : {undefined}, goalIsActive : {undefined}]

\* the ids sent with PUT and DELETE
RequestIds == {"", "a1", "n1"}

\* resetPeriod: type === 'checkbox' ? resetPeriod : undefined
resetPeriodOf(body) == IF body.type = "checkbox" THEN body.resetPeriod ELSE undefined

\* goalType: type === 'time-tracking' ? goalType : undefined
goalTypeOf(body) == IF body.type = "time-tracking" THEN body.goalType ELSE undefined

\* targetMinutes: type === 'time-tracking' && targetMinutes ? parseInt(targetMinutes) : undefined
targetMinutesOf(body) ==
    IF body.type = "time-tracking" /\ isTruthy(body.targetMinutes)
    THEN Some(parseInt(body.targetMinutes[1])) ELSE undefined

\* the validation common to POST and PUT: "" when the body passes
invalidBody(body) ==
    IF body.name = "" \/ body.type = ""
    THEN "Missing required fields: name, category, color, type"
    ELSE IF body.type = "checkbox" /\ body.resetPeriod = undefined
    THEN "Reset period is required for checkbox activities"
    ELSE ""

newActivity(id, body) ==
    [id |-> id, name |-> body.name, type |-> body.type,
     resetPeriod |-> resetPeriodOf(body),
     goalType |-> goalTypeOf(body),
     targetMinutes |-> targetMinutesOf(body),
     goalIsActive |-> IF body.type = "time-tracking" /\ body.goalType # undefined
                            /\ isTruthy(body.targetMinutes)
                      THEN Some(TRUE) ELSE undefined]

updatedActivity(existing, body) ==
    [existing EXCEPT !.name = body.name, !.type = body.type,
                     !.resetPeriod = resetPeriodOf(body),
                     !.goalType = goalTypeOf(body),
                     !.targetMinutes = targetMinutesOf(body),
                     !.goalIsActive = IF body.type = "time-tracking"
                                      THEN body.goalIsActive ELSE undefined]

\* the columns that a Prisma update can leave as they are
OptionalColumns == {"resetPeriod", "goalType", "targetMinutes", "goalIsActive"}

\* tx.activity.upsert({where: {id}, update: data, create: data}): a field of
\* data that is undefined is not written, so an update keeps the column and
\* a create leaves it NULL
upsertActivity(table, data) ==
    LET rows == {row \in table : row.id = data.id}
    IN  IF rows = {} THEN table \cup {data}
        ELSE LET row == CHOOSE row \in rows : TRUE
                 written == [f \in DOMAIN data |->
                                IF f \in OptionalColumns /\ data[f] = undefined
                                THEN row[f] ELSE data[f]]
             IN  (table \ rows) \cup {written}

\* Database.saveActivities(list) where list is the store as read with one
\* record added or replaced by `activity`.  lib/db.ts overwrites the file
\* and JSON.stringify writes NaN as null; DatabaseClient upserts every record
\* of the list in one transaction, which fails on a targetMinutes that is no
\* integer.  The result says whether the save failed and gives the new store.
saveActivities(activity) ==
    IF backend = "file"
    THEN LET written == IF activity.targetMinutes = Some(NaN)
                        THEN [activity EXCEPT !.targetMinutes = Some(null)]
                        ELSE activity
         IN  [failed |-> FALSE,
              table |-> {a \in activities : a.id # activity.id} \cup {written}]
    ELSE IF activity.targetMinutes = Some(NaN) THEN [failed |-> TRUE, table |-> activities]
    ELSE [failed |-> FALSE, table |-> upsertActivity(activities, activity)]

\* POST /api/activities
ActivityPOST(body) ==
    /\ IF invalidBody(body) # ""
       THEN /\ response' = errorResponse(400, invalidBody(body))
            /\ UNCHANGED activities
       ELSE \E id \in NewActivityIds \ {a.id : a \in activities} :
               LET saved == saveActivities(newActivity(id, body))
               IN  IF saved.failed
                   THEN /\ response' = errorResponse(500, "Failed to create activity")
                        /\ UNCHANGED activities
                   ELSE /\ activities' = saved.table
                        /\ response' = status(201)
    /\ UNCHANGED <<sessions, dreamingSpanishData, clock, activityId, now, checkboxStore,
                   goalStore, migrationStore>>

\* PUT /api/activities
ActivityPUT(id, body) ==
    /\ IF id = ""
       THEN /\ response' = errorResponse(400, "Activity ID is required")
            /\ UNCHANGED activities
       ELSE IF invalidBody(body) # ""
       THEN /\ response' = errorResponse(400, invalidBody(body))
            /\ UNCHANGED activities
       ELSE IF \A a \in activities : a.id # id
       THEN /\ response' = errorResponse(404, "Activity not found")
            /\ UNCHANGED activities
       ELSE LET existing == CHOOSE a \in activities : a.id = id
                saved == saveActivities(updatedActivity(existing, body))
            IN  IF saved.failed
                THEN /\ response' = errorResponse(500, "Failed to update activity")
                     /\ UNCHANGED activities
                ELSE /\ activities' = saved.table
                     /\ response' = status(200)
    /\ UNCHANGED <<sessions, dreamingSpanishData, clock, activityId, now, checkboxStore,
                   goalStore, migrationStore>>

\* mutant: the delete does not cascade
deleteActivityOnly(id) ==
    [activities |-> {a \in activities : a.id # id},
     sessions   |-> sessions,
     checkboxes |-> checkboxes,
     goals      |-> goals]

\* DatabaseClient.deleteActivity(id): the row is deleted, and the rows of
\* activity_sessions, daily_checkboxes and goals that reference it go with
\* it (ON DELETE CASCADE)
deleteActivity(id) ==
    [activities |-> {a \in activities : a.id # id},
     sessions   |-> SelectSeq(sessions, LAMBDA s : s.activityId # id),
     checkboxes |-> SelectSeq(checkboxes, LAMBDA c : c.activityId # id),
     goals      |-> {g \in goals : g.activityId # id}]

\* DELETE /api/activities?id=id.  The Database of lib/db.ts has no
\* deleteActivity: the call throws and the handler answers 500.
ActivityDELETE(id) ==
    /\ IF id = ""
       THEN /\ response' = errorResponse(400, "Activity ID is required")
            /\ UNCHANGED <<activities, sessions, checkboxes, goals>>
       ELSE IF ~(\E a \in activities : a.id = id)
       THEN /\ response' = errorResponse(404, "Activity not found")
            /\ UNCHANGED <<activities, sessions, checkboxes, goals>>
       ELSE IF backend = "file"
       THEN /\ response' = errorResponse(500, "Failed to delete activity")
            /\ UNCHANGED <<activities, sessions, checkboxes, goals>>
       ELSE LET deleted == deleteActivity(id)
            IN  /\ activities' = deleted.activities
                /\ sessions' = deleted.sessions
                /\ checkboxes' = deleted.checkboxes
                /\ goals' = deleted.goals
                /\ response' = status(200)
    /\ UNCHANGED <<dreamingSpanishData, clock, activityId, now, pending, backend,
                   migrationStore>>

\* a time-tracking activity with a weekly goal and a checkbox activity
StoredActivities ==
    {[id |-> "a1", name |-> "x", type |-> "time-tracking", resetPeriod |-> undefined,
      goalType |-> Some("weekly"), targetMinutes |-> Some(30), goalIsActive |-> Some(TRUE)],
     [id |-> "c1", name |-> "x", type |-> "checkbox", resetPeriod |-> Some("daily"),
      goalType |-> undefined, targetMinutes |-> undefined, goalIsActive |-> undefined]}

\* a legacy goal record
Goal(id, act) == [id |-> id, activityId |-> act]

\* a store where each activity has a session, a checkbox record and, in the
\* database, a legacy goal
InitActivities ==
    /\ activities = StoredActivities
    /\ sessions = <<StoredSession("s1", "a1", midday(Today), Today),
                    StoredSession("s2", "c1", midday(Today - 1), Today - 1)>>
    /\ dreamingSpanishData = <<>>
    /\ clock = midday(Today)
    /\ activityId = NoFilter
    /\ now = 0
    /\ response = NoResponse
    /\ checkboxes = <<[id |-> "k1", activityId |-> "c1", date |-> Today, isChecked |-> TRUE],
                      [id |-> "k2", activityId |-> "a1", date |-> Today, isChecked |-> FALSE]>>
    /\ pending = [r \in Requests |-> Idle]
    /\ backend \in {"file", "database"}
    /\ goals = IF backend = "database" THEN {Goal("g1", "a1"), Goal("g2", "c1")} ELSE {}
    /\ NoMigrations

NextActivities ==
    \/ \E body \in ActivityBodies : ActivityPOST(body)
    \/ \E id \in RequestIds, body \in ActivityBodies : ActivityPUT(id, body)
    \/ \E id \in RequestIds : ActivityDELETE(id)

SpecActivities == InitActivities /\ [][NextActivities]_vars

\* resetPeriod only on checkbox activities, goal fields only on time-tracking
\* activities, and a reset period on every checkbox activity
FieldsByType(a) ==
    /\ a.type # "checkbox" => a.resetPeriod = undefined
    /\ a.type # "time-tracking" =>
          a.goalType = undefined /\ a.targetMinutes = undefined /\ a.goalIsActive = undefined
    /\ a.type = "checkbox" => a.resetPeriod # undefined

\* C21: every activity stored through the activities API has resetPeriod
\* unset unless its type is checkbox, has goalType, targetMinutes and
\* goalIsActive unset unless its type is time-tracking, has a resetPeriod when
\* it is a checkbox activity, and has a positive integer as targetMinutes
\* when it has one
C21_ActivityFieldsByType ==
    \A a \in activities :
       /\ FieldsByType(a)
       /\ a.targetMinutes # undefined => a.targetMinutes[1] > 0

\* the part of C21 that holds: with lib/db.ts the fields follow the type
C21_FieldsFollowTypeInFile ==
    backend = "file" => \A a \in activities : FieldsByType(a)

\* with DatabaseClient an update can leave a field of the other type behind
C21_FieldsFollowTypeInDatabase ==
    backend = "database" => \A a \in activities : FieldsByType(a)


-----------------------------------------------------------------------------
\* the records of a list that belong to other activities than id
OfOthers(list, id) == SelectSeq(list, LAMBDA x : x.activityId # id)

\* C29: a successful DELETE of an activity removes the activity and every
\* session, checkbox and goal record that references its id, and leaves the
\* records of the other activities as they were; a DELETE for an id without
\* activity answers 404 and changes no record
C29_DeleteCascades ==
    [][\A id \in RequestIds :
          ActivityDELETE(id) =>
             /\ response'.success =>
                   /\ \A a \in activities' : a.id # id
                   /\ \A k \in 1..Len(sessions') : sessions'[k].activityId # id
                   /\ \A k \in 1..Len(checkboxes') : checkboxes'[k].activityId # id
                   /\ \A g \in goals' : g.activityId # id
                   /\ activities' = {a \in activities : a.id # id}
                   /\ sessions' = OfOthers(sessions, id)
                   /\ checkboxes' = OfOthers(checkboxes, id)
                   /\ goals' = {g \in goals : g.activityId # id}
             /\ id # "" /\ (\A a \in activities : a.id # id) =>
                   /\ response'.status = 404
                   /\ UNCHANGED <<activities, sessions, checkboxes, goals>>]_vars

\* activity a1 was deleted with its session, checkbox and goal; those of c1 remain
C29_Witness ==
    /\ backend = "database"
    /\ response = status(200)
    /\ \A a \in activities : a.id # "a1"
    /\ \E a \in activities : a.id = "c1"
    /\ Len(sessions) = 1 /\ sessions[1].activityId = "c1"
    /\ Len(checkboxes) = 1 /\ checkboxes[1].activityId = "c1"
    /\ goals = {Goal("g2", "c1")}

\* with lib/db.ts the DELETE of a stored activity never succeeds
C29_NoDeleteInFile ==
    backend = "file" => activities # {} /\ Len(sessions) = 2 /\ Len(checkboxes) = 2


-----------------------------------------------------------------------------
(* MigrationRunner.runMigrations (src/unnamed/part_004).  A file name is the
   tuple of its characters.  `migrations` is the set of file names in the
   migrations table and `schema` the list of the files whose SQL is
   committed, in commit order; what a transaction has done before its COMMIT
   is in the position of its runner alone.  Each query is one step, and two
   processes can run the migrations at the same time. *)

\* the characters of the file names, in the order of their code units
charCodes == <<".", "0", "1", "2", "l", "q", "s", "t", "x">>

charCode(c) == CHOOSE k \in 1..Len(charCodes) : charCodes[k] = c

\* a < b for two strings, as Array.prototype.sort() compares them
RECURSIVE lessFrom(_, _, _)
lessFrom(a, b, k) ==
    IF k > Len(b) THEN FALSE
    ELSE IF k > Len(a) THEN TRUE
    ELSE IF a[k] # b[k] THEN charCode(a[k]) < charCode(b[k])
    ELSE lessFrom(a, b, k + 1)

less(a, b) == lessFrom(a, b, 1)

\* files.sort()
RECURSIVE sort(_)
sort(files) ==
    IF files = {} THEN <<>>
    ELSE LET first == CHOOSE f \in files : \A g \in files \ {f} : less(f, g)
         IN  <<first>> \o sort(files \ {first})

\* file.endsWith('.sql')
endsWithSql(file) ==
    /\ Len(file) >= 4
    /\ SubSeq(file, Len(file) - 3, Len(file)) = <<".", "s", "q", "l">>

\* the files that can be put into the migrations directory
FileNames ==
    {<<"1", ".", "s", "q", "l">>, <<"2", ".", "s", "q", "l">>,
     <<"1", "0", ".", "s", "q", "l">>, <<"2", ".", "t", "x", "t">>}

\* the file of the loop of process p
current(p) == runner[p].migrationFiles[runner[p].i]

\* a file is added to the migrations directory
AddFile(file) ==
    /\ file \notin migrationsDir
    /\ migrationsDir' = migrationsDir \cup {file}
    /\ UNCHANGED <<store, activityId, now, response, checkboxStore, goalStore,
                   migrations, schema, runner>>

\* runMigrations starts: the migrations table is created if it is missing,
\* the .sql files of the directory are listed and sorted, and the executed
\* file names are selected
StartRun(p) ==
    /\ runner[p].pc \in {"idle", "done", "failed"}
    /\ runner' = [runner EXCEPT ![p] =
                     [pc |-> "loop",
                      migrationFiles |-> sort({f \in migrationsDir : endsWithSql(f)}),
                      executedMigrations |-> migrations,
                      i |-> 1]]
    /\ UNCHANGED <<store, activityId, now, response, checkboxStore, goalStore,
                   migrationsDir, migrations, schema>>

\* the loop: at the end of the list the run is done; an executed file is
\* passed over; for a pending file BEGIN is sent
NextFile(p) ==
    /\ runner[p].pc = "loop"
    /\ runner' = [runner EXCEPT ![p] =
                     IF @.i > Len(@.migrationFiles) THEN [@ EXCEPT !.pc = "done"]
                     ELSE IF @.migrationFiles[@.i] \in @.executedMigrations
                     THEN [@ EXCEPT !.i = @ + 1]
                     ELSE [@ EXCEPT !.pc = "begun"]]
    /\ UNCHANGED <<store, activityId, now, response, checkboxStore, goalStore,
                   migrationsDir, migrations, schema>>

\* the SQL of the file is sent inside the transaction: it succeeds, or it
\* fails, ROLLBACK is sent and the error ends the run
RunSql(p) ==
    /\ runner[p].pc = "begun"
    /\ \E ok \in BOOLEAN :
          runner' = [runner EXCEPT ![p].pc = IF ok THEN "applied" ELSE "failed"]
    /\ UNCHANGED <<store, activityId, now, response, checkboxStore, goalStore,
                   migrationsDir, migrations, schema>>

\* mutant: the filename column is not UNIQUE
uniqueViolationNever(file) == FALSE

\* filename VARCHAR(255) NOT NULL UNIQUE: the insert of a committed name fails
uniqueViolation(file) == file \in migrations

\* INSERT INTO migrations (filename): filename is UNIQUE, so the insert
\* waits for a transaction that has inserted the same name, and fails when
\* the name is committed; then ROLLBACK is sent and the error ends the run
InsertFilename(p) ==
    /\ runner[p].pc = "applied"
    /\ \A q \in Procs \ {p} : ~(runner[q].pc = "inserted" /\ current(q) = current(p))
    /\ runner' = [runner EXCEPT ![p].pc =
                     IF uniqueViolation(current(p)) THEN "failed" ELSE "inserted"]
    /\ UNCHANGED <<store, activityId, now, response, checkboxStore, goalStore,
                   migrationsDir, migrations, schema>>

\* COMMIT: the changes of the SQL and the row of the file become durable
Commit(p) ==
    /\ runner[p].pc = "inserted"
    /\ schema' = Append(schema, current(p))
    /\ migrations' = migrations \cup {current(p)}
    /\ runner' = [runner EXCEPT ![p] = [@ EXCEPT !.pc = "loop", !.i = @ + 1]]
    /\ UNCHANGED <<store, activityId, now, response, checkboxStore, goalStore,
                   migrationsDir>>

\* a database and a directory before the first migration
InitMigrations ==
    /\ activities = {}
    /\ sessions = <<>>
    /\ dreamingSpanishData = <<>>
    /\ clock = midday(Today)
    /\ activityId = NoFilter
    /\ now = 0
    /\ response = NoResponse
    /\ NoCheckboxes
    /\ NoGoals
    /\ NoMigrations

NextMigrations ==
    \/ \E file \in FileNames : AddFile(file)
    \/ \E p \in Procs : StartRun(p)
    \/ \E p \in Procs : NextFile(p)
    \/ \E p \in Procs : RunSql(p)
    \/ \E p \in Procs : InsertFilename(p)
    \/ \E p \in Procs : Commit(p)

SpecMigrations == InitMigrations /\ [][NextMigrations]_vars

\* the files of a list
Files(list) == {list[k] : k \in 1..Len(list)}

\* the files that process p has passed in its run without finding them executed
RanBy(p) ==
    {runner[p].migrationFiles[k] : k \in 1..(runner[p].i - 1)} \ runner[p].executedMigrations

\* C30: over any number of runs, a file is in the migrations table exactly
\* when its SQL is committed, and no SQL is committed twice; a run takes its
\* pending files in ascending order of file name; when a migration fails
\* nothing of it is committed or recorded, the run has failed, and it
\* executes no further migration
C30_RecordedIffApplied ==
    [][/\ migrations' = Files(schema')
       /\ \A j, k \in 1..Len(schema') : schema'[j] = schema'[k] => j = k
       /\ \A p \in Procs :
             /\ \A j, k \in 1..Len(runner'[p].migrationFiles) :
                   j < k => less(runner'[p].migrationFiles[j], runner'[p].migrationFiles[k])
             /\ schema' # schema /\ runner'[p] # runner[p] =>
                   /\ schema' = Append(schema, current(p))
                   /\ current(p) \notin migrations
                   /\ \A f \in RanBy(p) : less(f, current(p))
             /\ runner'[p].pc = "failed" /\ runner[p].pc # "failed" =>
                   /\ runner[p].pc \in {"begun", "applied"}
                   /\ schema' = schema /\ migrations' = migrations
             /\ runner[p].pc = "failed" /\ runner'[p] # runner[p] =>
                   /\ runner'[p].pc = "loop" /\ runner'[p].i = 1
                   /\ schema' = schema /\ migrations' = migrations]_vars

\* every .sql file of the directory is committed and recorded and the other
\* file is not, one process has run through the three files "1.sql",
\* "10.sql", "2.sql", and the run of another has failed
C30_Witness ==
    /\ migrationsDir = FileNames
    /\ migrations = {f \in FileNames : endsWithSql(f)}
    /\ Len(schema) = 3
    /\ \E p \in Procs : runner[p].pc = "failed"
    /\ \E p \in Procs : runner[p].pc = "done" /\ Len(runner[p].migrationFiles) = 3

====
